---- MODULE Spec2Model ----
(***************************************************************************)
(* State-machine model of webaudit's src/app.py: the "Analyze Website"     *)
(* button handler, the cached orchestrator perform_full_audit and the      *)
(* stages it sequences (Playwright fetch, two Lighthouse runs, SEO and     *)
(* technical analysis, OpenAI recommendations).                            *)
(*                                                                         *)
(* Python dicts are functions from their keys; a missing key is a string   *)
(* outside DOMAIN.  Python strings that the code inspects character by     *)
(* character (URLs, title and alt texts) are sequences of one-character    *)
(* strings; opaque strings are TLA+ strings.                               *)
(***************************************************************************)
EXTENDS Integers, Sequences, FiniteSets, TLC

VARIABLES
    pc,              \* position of the script run / button handler
    clock,           \* wall-clock seconds, read by the st.cache_data timer
    OPENAI_ENABLED,  \* module global set at lines 23-28
    cache,           \* st.cache_data store of perform_full_audit, keyed by url
    url_to_audit,    \* text of the URL input at the click
    browser,         \* Chromium process of this run: "none", "open", "closed"
    fetch_error,     \* which fetch step raised in this run ("none" if none)
    soup,            \* parsed page (BeautifulSoup) of this run
    all_data,        \* the dict perform_full_audit assembles
    lh_results,      \* the local dict `results` of run_lighthouse_audits
    lh_mode,         \* per device: how its Lighthouse run of this run ended
    robots_probe,    \* how the robots.txt probe of this run ended
    rec_mode,        \* how generate_recommendations of this run ended
    prompt_data,     \* payload serialized into the prompt sent to the service
    invoked,         \* external collaborators and stages invoked by this run
    results,         \* value perform_full_audit returned to the handler
    screen,          \* what the handler rendered
    served           \* per url: the value and time of the last executed audit

vars == <<pc, clock, OPENAI_ENABLED, cache, url_to_audit, browser, fetch_error,
          soup, all_data, lh_results, lh_mode, robots_probe, rec_mode,
          prompt_data, invoked, results, screen, served>>

(***************************************************************************)
(* Bounds and program constants                                            *)
(***************************************************************************)
MaxTicks == 4            \* the clock stops after this many ticks
TickSeconds == 1200      \* seconds per clock tick (granularity of the model)
ttl == 3600              \* @st.cache_data(ttl=3600)

(***************************************************************************)
(* Python values                                                           *)
(***************************************************************************)
None == [py_none |-> TRUE]
EmptyDict == [k \in {} |-> TRUE]
Missing == [cache_miss |-> TRUE]

\* str.startswith(prefix)
startswith(s, prefix) ==
    /\ Len(s) >= Len(prefix)
    /\ SubSeq(s, 1, Len(prefix)) = prefix

\* dict.get(key, default)
get(d, key, default) == IF key \in DOMAIN d THEN d[key] ELSE default

\* dict.pop(key, None), as the dict left behind
pop(d, key) == [k \in DOMAIN d \ {key} |-> d[k]]

\* d[key] = value
setitem(d, key, value) == [k \in DOMAIN d \cup {key} |-> IF k = key THEN value ELSE d[k]]

\* str.strip() on a sequence of characters
Whitespace == {" ", "\t", "\n"}
RECURSIVE lstrip(_)
lstrip(s) == IF s # <<>> /\ Head(s) \in Whitespace THEN lstrip(Tail(s)) ELSE s
RECURSIVE rstrip(_)
rstrip(s) == IF s # <<>> /\ s[Len(s)] \in Whitespace
             THEN rstrip(SubSeq(s, 1, Len(s) - 1)) ELSE s
strip(s) == rstrip(lstrip(s))

\* round(n / d) to the nearest integer, ties to even (Python's format rounding)
RoundDiv(n, d) ==
    LET q == n \div d
        r == n % d
    IN  IF 2 * r > d \/ (2 * r = d /\ q % 2 = 1) THEN q + 1 ELSE q

(***************************************************************************)
(* Inputs: the URLs a user may type                                        *)
(***************************************************************************)
http == <<"h", "t", "t", "p">>
http_scheme == <<"h", "t", "t", "p", ":", "/", "/">>
https_scheme == <<"h", "t", "t", "p", "s", ":", "/", "/">>

UrlHttps == https_scheme \o <<"a", ".", "i", "o">>       \* https://a.io
UrlHttpNoScheme == <<"h", "t", "t", "p", "a", ".", "i", "o">>   \* httpa.io
UrlBare == <<"a", ".", "i", "o">>                        \* a.io
UrlFtp == <<"f", "t", "p", ":", "/", "/", "a", ".", "i", "o">>  \* ftp://a.io

URLs == {UrlHttps, UrlHttpNoScheme, UrlBare, UrlFtp}

\* A URL carries an HTTP/HTTPS scheme prefix
HasHttpScheme(u) == startswith(u, http_scheme) \/ startswith(u, https_scheme)

(***************************************************************************)
(* Performance Auditor: run_single_lighthouse_audit, run_lighthouse_audits *)
(***************************************************************************)
Devices == {"desktop", "mobile"}
CategoryNames == {"performance", "seo", "accessibility", "best-practices"}
MetricIds == {"first-contentful-paint", "largest-contentful-paint",
              "total-blocking-time", "cumulative-layout-shift", "speed-index"}

\* Lighthouse reports (the parsed JSON document).  A category score is in
\* thousandths of the [0,1] score; an entry without "score" is a null score.
ReportFull ==
    [categories |-> [c \in CategoryNames |->
                        [score |-> CASE c = "performance" -> 873
                                     [] c = "seo" -> 1000
                                     [] c = "accessibility" -> 916
                                     [] OTHER -> 0]],
     audits |-> [m \in MetricIds |-> [displayValue |-> "1.2 s"]]]

ReportSparse ==
    [categories |-> [c \in {"performance", "seo"} |->
                        IF c = "performance" THEN [id |-> c]
                        ELSE [score |-> 504]],
     audits |-> [m \in {"speed-index", "total-blocking-time"} |->
                        IF m = "speed-index" THEN [displayValue |-> "3.4 s"]
                        ELSE [id |-> m]]]

Reports == {ReportFull, ReportSparse}

\* How subprocess.run of the lighthouse command can end
LighthouseRuns ==
    {[kind |-> "TimeoutExpired"],
     [kind |-> "CalledProcessError", stderr |-> "Unable to connect to Chrome"],
     [kind |-> "FileNotFoundError"],
     [kind |-> "completed", stdout |-> [json |-> "malformed"]],
     [kind |-> "completed", stdout |-> [json |-> "array"]]}
    \cup {[kind |-> "completed", stdout |-> [json |-> "object", value |-> r]] : r \in Reports}

\* get_score: f"{score * 100:.0f}" if score is not None else "0"
get_score(categories, category_name) ==
    LET entry == get(categories, category_name, EmptyDict)
    IN  IF "score" \in DOMAIN entry
        THEN ToString(RoundDiv(entry.score * 100, 1000))
        ELSE "0"

\* get_metric: audits.get(metric_id, {}).get('displayValue', 'N/A')
get_metric(audits, metric_id) ==
    get(get(audits, metric_id, EmptyDict), "displayValue", "N/A")

\* The dict built at lines 84-97 from a parsed report
lighthouse_summary(report) ==
    LET audits == get(report, "audits", EmptyDict)
        categories == get(report, "categories", EmptyDict)
    IN  [performance_score |-> get_score(categories, "performance"),
         seo_score |-> get_score(categories, "seo"),
         accessibility_score |-> get_score(categories, "accessibility"),
         best_practices_score |-> get_score(categories, "best-practices"),
         metrics |->
            [m \in {"First Contentful Paint", "Largest Contentful Paint",
                    "Total Blocking Time", "Cumulative Layout Shift", "Speed Index"} |->
                get_metric(audits,
                    CASE m = "First Contentful Paint" -> "first-contentful-paint"
                      [] m = "Largest Contentful Paint" -> "largest-contentful-paint"
                      [] m = "Total Blocking Time" -> "total-blocking-time"
                      [] m = "Cumulative Layout Shift" -> "cumulative-layout-shift"
                      [] OTHER -> "speed-index")],
         full_report |-> report]

\* Variant: subprocess.TimeoutExpired is not caught at line 60
single_audit_raises_on_timeout(run) ==
    \/ run.kind = "FileNotFoundError"
    \/ run.kind = "TimeoutExpired"
    \/ run.kind = "completed" /\ run.stdout.json = "array"

\* Whether run_single_lighthouse_audit raises instead of returning: an exception
\* other than TimeoutExpired / CalledProcessError / JSONDecodeError (the
\* executable is missing, or the JSON document is not an object so that
\* report.get fails).
single_audit_raises(run) ==
    \/ run.kind = "FileNotFoundError"
    \/ run.kind = "completed" /\ run.stdout.json = "array"

\* The value run_single_lighthouse_audit returns when it returns
run_single_lighthouse_audit(run) ==
    CASE run.kind = "TimeoutExpired" -> [error |-> "Timeout"]
      [] run.kind = "CalledProcessError" ->
            [error |-> "Command returned non-zero exit status", stderr |-> run.stderr]
      [] run.kind = "completed" /\ run.stdout.json = "malformed" ->
            [error |-> "JSON parsing error: Expecting value"]
      [] OTHER -> lighthouse_summary(run.stdout.value)

\* The name under which a run's ending is recorded in lh_mode
run_mode(run) ==
    CASE run.kind = "TimeoutExpired" -> "timeout"
      [] run.kind = "CalledProcessError" -> "nonzero_exit"
      [] run.kind = "completed" /\ run.stdout.json = "malformed" -> "malformed_json"
      [] single_audit_raises(run) -> "raised"
      [] OTHER -> "ok"

(***************************************************************************)
(* Rendered pages, as BeautifulSoup sees them                              *)
(***************************************************************************)
\* A page with a padded title, a description, headings, three images (one
\* with alt text, one with blank alt text, one without alt attribute), a
\* contact link, an e-mail address and a phone number.
PageRich ==
    [title |-> <<" ", "H", "i", "\n">>,
     meta_description |-> [content |-> <<"A", "b", " ">>],
     h1 |-> 1, h2 |-> 2, h3 |-> 0, h4 |-> 0,
     images |-> <<[alt |-> <<"l", "o", "g", "o">>], [alt |-> <<" ">>], EmptyDict>>,
     contact_href |-> TRUE, privacy_href |-> FALSE,
     email_match |-> TRUE, phone_match |-> TRUE]

\* A page with no title, no description meta tag and no images.
PageBare ==
    [h1 |-> 0, h2 |-> 0, h3 |-> 0, h4 |-> 0,
     images |-> <<>>,
     contact_href |-> FALSE, privacy_href |-> FALSE,
     email_match |-> FALSE, phone_match |-> FALSE]

Pages == {PageRich, PageBare}

NotFound == <<"N", "o", "t", " ", "F", "o", "u", "n", "d">>

(***************************************************************************)
(* SEO Analyzer: analyze_seo                                               *)
(***************************************************************************)
\* images_without_alt: [img for img in images if not img.get('alt', '').strip()]
images_without_alt(images) ==
    SelectSeq(images, LAMBDA img : strip(get(img, "alt", <<>>)) = <<>>)

\* f"{(total - missing) / total * 100:.1f}" if images else "100.0"
coverage_percent(total, missing) ==
    IF total = 0 THEN "100.0"
    ELSE LET tenths == RoundDiv((total - missing) * 1000, total)
         IN  ToString(tenths \div 10) \o "." \o ToString(tenths % 10)

analyze_seo(page) ==
    LET has_title == "title" \in DOMAIN page
        has_desc == "meta_description" \in DOMAIN page
        desc_content == IF has_desc THEN strip(get(page.meta_description, "content", <<>>))
                        ELSE <<>>
        images == page.images
    IN  [title |->
            [text |-> IF has_title THEN strip(page.title) ELSE NotFound,
             length |-> IF has_title THEN Len(strip(page.title)) ELSE 0],
         meta_description |->
            [present |-> has_desc,
             text |-> IF has_desc THEN desc_content ELSE NotFound,
             length |-> IF has_desc THEN Len(desc_content) ELSE 0],
         headings |-> [h1 |-> page.h1, h2 |-> page.h2, h3 |-> page.h3, h4 |-> page.h4],
         images |->
            [total |-> Len(images),
             missing_alt |-> Len(images_without_alt(images)),
             coverage_percent |->
                coverage_percent(Len(images), Len(images_without_alt(images)))]]

(***************************************************************************)
(* Technical Checker: analyze_technical                                    *)
(***************************************************************************)
\* How requests.get(urljoin(url, '/robots.txt'), timeout=5) can end
RobotsProbes ==
    {[kind |-> "response", status_code |-> 200],
     [kind |-> "response", status_code |-> 404],
     [kind |-> "RequestException"]}

\* Variant: a failed probe counts as a robots.txt that exists
robots_ok_unless_answered_otherwise(probe) ==
    probe.kind # "response" \/ probe.status_code = 200

\* robots_ok as set by the try/except at lines 146-150
robots_ok(probe) == probe.kind = "response" /\ probe.status_code = 200

\* The status glyphs of the checklist
check_or(value, otherwise) == IF value THEN "check" ELSE otherwise

analyze_technical(page, url, probe) ==
    [https_enabled |->
        [value |-> startswith(url, https_scheme),
         status |-> check_or(startswith(url, https_scheme), "cross")],
     has_contact_page |->
        [value |-> page.contact_href, status |-> check_or(page.contact_href, "warning")],
     has_email |->
        [value |-> page.email_match, status |-> check_or(page.email_match, "warning")],
     has_phone |->
        [value |-> page.phone_match, status |-> check_or(page.phone_match, "warning")],
     has_privacy_link |->
        [value |-> page.privacy_href, status |-> check_or(page.privacy_href, "cross")],
     has_robots_txt |->
        [value |-> robots_ok(probe), status |-> check_or(robots_ok(probe), "warning")]]

(***************************************************************************)
(* Recommendation Generator: generate_recommendations                      *)
(***************************************************************************)
\* How client.chat.completions.create can end, and what the message holds
ServiceCalls ==
    {[kind |-> "APIConnectionError"],
     [kind |-> "rate_limit_exceeded"],
     [kind |-> "response", content |-> [json |-> "malformed"]],
     [kind |-> "response",
      content |-> [json |-> "object",
                   value |-> [summary |-> "Healthy site",
                              actionItems |-> <<"Add alt text", "Add a privacy link">>]]],
     [kind |-> "response",
      content |-> [json |-> "object", value |-> [summary |-> "Healthy site"]]]}

\* d.get(key) is truthy, for a key whose value is a dict
truthy_item(d, key) == key \in DOMAIN d /\ d[key] # EmptyDict

\* copy.deepcopy: the copy shares nothing with the original
deepcopy(x) == x

\* Lines 174-178 applied to a dict: full_report popped from both devices
strip_desktop(perf) ==
    IF truthy_item(perf, "desktop")
    THEN [perf EXCEPT !["desktop"] = pop(@, "full_report")] ELSE perf
strip_mobile(perf) ==
    IF truthy_item(perf, "mobile")
    THEN [perf EXCEPT !["mobile"] = pop(@, "full_report")] ELSE perf

\* Variant: the mobile pop (lines 177-178) left out
strip_full_report_desktop_only(data) ==
    IF truthy_item(data, "performance")
    THEN [data EXCEPT !["performance"] = strip_desktop(@)] ELSE data

strip_full_report(data) ==
    IF truthy_item(data, "performance")
    THEN [data EXCEPT !["performance"] = strip_mobile(strip_desktop(@))] ELSE data

\* data_for_prompt at line 180, the object json.dumps serializes into the prompt
data_for_prompt(audit_data) == strip_full_report(deepcopy(audit_data))

\* Variant: with copy.copy the nested performance dicts are shared with the
\* caller, so the pops reach the caller's audit
audit_data_after_shallow_copy(audit_data) == strip_full_report(audit_data)

\* The caller's audit_data after lines 172-178: the pops act on the deep copy
audit_data_after(audit_data) == audit_data

\* Variant: the placeholder without its action item
recommendations_disabled_no_item ==
    [summary |-> "OpenAI API key not configured.", actionItems |-> <<>>]

\* Return value at line 167
recommendations_disabled ==
    [summary |-> "OpenAI API key not configured.",
     actionItems |-> <<"Enable OpenAI to get AI-powered recommendations.">>]

\* Return value at line 210
recommendations_error == [summary |-> "Error generating recommendations.",
                          actionItems |-> <<>>]

\* Lines 193-210: the value returned once the request has been attempted
recommendations_from(call) ==
    IF call.kind = "response" /\ call.content.json = "object"
    THEN call.content.value
    ELSE recommendations_error

\* The name under which a call's ending is recorded in rec_mode
call_mode(call) ==
    CASE call.kind = "APIConnectionError" -> "unreachable"
      [] call.kind = "rate_limit_exceeded" -> "rate_limit"
      [] call.content.json = "malformed" -> "malformed_json"
      [] OTHER -> "ok"

(***************************************************************************)
(* st.cache_data(ttl=3600) around perform_full_audit                       *)
(***************************************************************************)
\* Variant: an entry never expires
cache_lookup_no_expiry(c, u, now) == IF c[u] # Missing THEN c[u].value ELSE Missing

\* The cached return value for argument u that is still live at `now`, or Missing
cache_lookup(c, u, now) ==
    IF c[u] # Missing /\ now < c[u].expires THEN c[u].value ELSE Missing

\* The store after the function returned `value` for argument u at `now`
cache_store(c, u, value, now) ==
    [c EXCEPT ![u] = [value |-> value, expires |-> now + ttl]]

\* The store with u's entry dropped (an expired entry is evicted on lookup)
cache_evict(c, u) == [c EXCEPT ![u] = Missing]

(***************************************************************************)
(* The state of a script run before the button handler has done anything   *)
(***************************************************************************)
NoRun == [d \in Devices |-> "not_run"]

FreshRun ==
    /\ browser' = "none"
    /\ fetch_error' = "none"
    /\ soup' = None
    /\ lh_results' = EmptyDict
    /\ lh_mode' = NoRun
    /\ robots_probe' = "not_run"
    /\ rec_mode' = "not_run"
    /\ prompt_data' = None
    /\ invoked' = {}

Init ==
    /\ pc = "idle"
    /\ clock = 0
    /\ OPENAI_ENABLED \in BOOLEAN
    /\ cache = [u \in URLs |-> Missing]
    /\ url_to_audit = UrlHttps
    /\ browser = "none"
    /\ fetch_error = "none"
    /\ soup = None
    /\ all_data = None
    /\ lh_results = EmptyDict
    /\ lh_mode = NoRun
    /\ robots_probe = "not_run"
    /\ rec_mode = "not_run"
    /\ prompt_data = None
    /\ invoked = {}
    /\ results = None
    /\ screen = "blank"
    /\ served = [u \in URLs |-> Missing]

\* Time passes between two clicks
Tick ==
    /\ pc = "idle"
    /\ clock < MaxTicks * TickSeconds
    /\ clock' = clock + TickSeconds
    /\ UNCHANGED <<pc, OPENAI_ENABLED, cache, url_to_audit, browser, fetch_error,
                   soup, all_data, lh_results, lh_mode, robots_probe, rec_mode,
                   prompt_data, invoked, results, screen, served>>

(***************************************************************************)
(* The "Analyze Website" button handler, lines 286-290                     *)
(***************************************************************************)
\* Line 287: url_to_audit.startswith("http")
url_accepted(u) == startswith(u, http)

\* Lines 287-288: the URL is refused
ClickRejected ==
    /\ pc = "idle"
    /\ \E u \in URLs :
        /\ ~url_accepted(u)
        /\ url_to_audit' = u
    /\ FreshRun
    /\ all_data' = None
    /\ results' = None
    /\ screen' = "validation_error"
    /\ UNCHANGED <<pc, clock, OPENAI_ENABLED, cache, served>>

\* Line 290 answered by st.cache_data: the body of perform_full_audit does not run
ClickCached ==
    /\ pc = "idle"
    /\ \E u \in URLs :
        /\ url_accepted(u)
        /\ cache_lookup(cache, u, clock) # Missing
        /\ url_to_audit' = u
        /\ FreshRun
        /\ all_data' = None
        /\ results' = cache_lookup(cache, u, clock)
    /\ pc' = "render"
    /\ screen' = "blank"
    /\ UNCHANGED <<clock, OPENAI_ENABLED, cache, served>>

\* Line 290 not answered by the cache: the body of perform_full_audit starts
\* (line 216) and the browser is about to be launched
ClickUncached ==
    /\ pc = "idle"
    /\ \E u \in URLs :
        /\ url_accepted(u)
        /\ cache_lookup(cache, u, clock) = Missing
        /\ url_to_audit' = u
        /\ cache' = cache_evict(cache, u)
        /\ served' = [served EXCEPT ![u] = Missing]
        /\ FreshRun
        /\ all_data' = [url |-> u]
    /\ results' = None
    /\ pc' = "launch"
    /\ screen' = "blank"
    /\ UNCHANGED <<clock, OPENAI_ENABLED>>

(***************************************************************************)
(* perform_full_audit, lines 212-247                                       *)
(***************************************************************************)
\* Variant: the dict assembled so far is returned whatever `value` is
Return_all_data(value) ==
    /\ results' = all_data
    /\ cache' = cache_store(cache, url_to_audit, all_data, clock)
    /\ served' = [served EXCEPT ![url_to_audit] = [value |-> all_data, at |-> clock]]
    /\ pc' = "render"

\* perform_full_audit returns `value`: st.cache_data stores it under the url and
\* the handler receives it
Return(value) ==
    /\ results' = value
    /\ cache' = cache_store(cache, url_to_audit, value, clock)
    /\ served' = [served EXCEPT ![url_to_audit] = [value |-> value, at |-> clock]]
    /\ pc' = "render"

\* Variant: leaving the `with` block leaves the browser process alone
PlaywrightExit_no_teardown(b) == b

\* Leaving `with sync_playwright() as p` (line 220) stops the Playwright driver,
\* which ends every browser it launched that is still running
PlaywrightExit(b) == IF b = "open" THEN "closed" ELSE b

\* Lines 230-232: a step of the fetch raised; the `with` block is left, the
\* error is shown and perform_full_audit returns None
FetchFailed(step) ==
    /\ fetch_error' = step
    /\ browser' = PlaywrightExit(browser)
    /\ Return(None)
    /\ UNCHANGED <<clock, OPENAI_ENABLED, url_to_audit, soup, all_data, lh_results,
                   lh_mode, robots_probe, rec_mode, prompt_data, screen>>

\* Playwright navigates only to URLs with a scheme it knows
Navigable(u) == HasHttpScheme(u)

\* Lines 220-224: sync_playwright() and p.chromium.launch succeed
Launch ==
    /\ pc = "launch"
    /\ browser' = "open"
    /\ invoked' = invoked \cup {"playwright"}
    /\ pc' = "new_page"
    /\ UNCHANGED <<clock, OPENAI_ENABLED, cache, url_to_audit, fetch_error, soup,
                   all_data, lh_results, lh_mode, robots_probe, rec_mode,
                   prompt_data, results, screen, served>>

\* Lines 220-224: starting Playwright or launching Chromium raises
LaunchFails ==
    /\ pc = "launch"
    /\ invoked' = invoked \cup {"playwright"}
    /\ FetchFailed("launch")

\* Line 225: browser.new_page() succeeds
NewPage ==
    /\ pc = "new_page"
    /\ pc' = "goto"
    /\ UNCHANGED <<clock, OPENAI_ENABLED, cache, url_to_audit, browser, fetch_error,
                   soup, all_data, lh_results, lh_mode, robots_probe, rec_mode,
                   prompt_data, invoked, results, screen, served>>

\* Line 225: browser.new_page() raises
NewPageFails ==
    /\ pc = "new_page"
    /\ FetchFailed("new_page")
    /\ UNCHANGED invoked

\* Line 226: page.goto succeeds
Goto ==
    /\ pc = "goto"
    /\ Navigable(url_to_audit)
    /\ pc' = "content"
    /\ UNCHANGED <<clock, OPENAI_ENABLED, cache, url_to_audit, browser, fetch_error,
                   soup, all_data, lh_results, lh_mode, robots_probe, rec_mode,
                   prompt_data, invoked, results, screen, served>>

\* Line 226: page.goto raises (navigation error) or exceeds its 60 s timeout
GotoFails ==
    /\ pc = "goto"
    /\ \E step \in {"navigation", "timeout"} :
        /\ Navigable(url_to_audit) \/ step = "navigation"
        /\ FetchFailed(step)
    /\ UNCHANGED invoked

\* Line 227: page.content() returns the rendered HTML
Content ==
    /\ pc = "content"
    /\ \E page \in Pages : soup' = page
    /\ pc' = "close"
    /\ UNCHANGED <<clock, OPENAI_ENABLED, cache, url_to_audit, browser, fetch_error,
                   all_data, lh_results, lh_mode, robots_probe, rec_mode,
                   prompt_data, invoked, results, screen, served>>

\* Line 227: page.content() raises
ContentFails ==
    /\ pc = "content"
    /\ FetchFailed("content")
    /\ UNCHANGED invoked

\* Lines 228-229: browser.close(), the `with` block is left, the HTML is parsed
CloseBrowser ==
    /\ pc = "close"
    /\ browser' = PlaywrightExit("closed")
    /\ pc' = "lighthouse_desktop"
    /\ UNCHANGED <<clock, OPENAI_ENABLED, cache, url_to_audit, fetch_error, soup,
                   all_data, lh_results, lh_mode, robots_probe, rec_mode,
                   prompt_data, invoked, results, screen, served>>

(***************************************************************************)
(* run_lighthouse_audits, lines 99-108, called at line 235                 *)
(***************************************************************************)
\* Lines 105-107: the value returned when either call raised
critical_error == [error |-> "critical error"]

\* Line 103: the desktop run
LighthouseDesktop ==
    /\ pc = "lighthouse_desktop"
    /\ \E run \in LighthouseRuns :
        /\ lh_mode' = [lh_mode EXCEPT !["desktop"] = run_mode(run)]
        /\ IF single_audit_raises(run)
           THEN /\ lh_results' = lh_results
                /\ all_data' = setitem(all_data, "performance", critical_error)
                /\ pc' = "seo"
           ELSE /\ lh_results' = setitem(lh_results, "desktop",
                                         run_single_lighthouse_audit(run))
                /\ all_data' = all_data
                /\ pc' = "lighthouse_mobile"
    /\ invoked' = invoked \cup {"lighthouse_desktop"}
    /\ UNCHANGED <<clock, OPENAI_ENABLED, cache, url_to_audit, browser, fetch_error,
                   soup, robots_probe, rec_mode, prompt_data, results, screen, served>>

\* Line 104: the mobile run, and the return at line 108 (or 107)
LighthouseMobile ==
    /\ pc = "lighthouse_mobile"
    /\ \E run \in LighthouseRuns :
        /\ lh_mode' = [lh_mode EXCEPT !["mobile"] = run_mode(run)]
        /\ IF single_audit_raises(run)
           THEN /\ lh_results' = lh_results
                /\ all_data' = setitem(all_data, "performance", critical_error)
           ELSE /\ lh_results' = setitem(lh_results, "mobile",
                                         run_single_lighthouse_audit(run))
                /\ all_data' = setitem(all_data, "performance", lh_results')
    /\ invoked' = invoked \cup {"lighthouse_mobile"}
    /\ pc' = "seo"
    /\ UNCHANGED <<clock, OPENAI_ENABLED, cache, url_to_audit, browser, fetch_error,
                   soup, robots_probe, rec_mode, prompt_data, results, screen, served>>

\* Line 238
Seo ==
    /\ pc = "seo"
    /\ all_data' = setitem(all_data, "seo", analyze_seo(soup))
    /\ invoked' = invoked \cup {"seo"}
    /\ pc' = "technical"
    /\ UNCHANGED <<clock, OPENAI_ENABLED, cache, url_to_audit, browser, fetch_error,
                   soup, lh_results, lh_mode, robots_probe, rec_mode, prompt_data,
                   results, screen, served>>

\* Line 241
Technical ==
    /\ pc = "technical"
    /\ \E probe \in RobotsProbes :
        /\ robots_probe' = IF probe.kind = "response" THEN "answered" ELSE "failed"
        /\ all_data' = setitem(all_data, "technical",
                               analyze_technical(soup, url_to_audit, probe))
    /\ invoked' = invoked \cup {"technical", "robots_txt"}
    /\ pc' = "recommendations"
    /\ UNCHANGED <<clock, OPENAI_ENABLED, cache, url_to_audit, browser, fetch_error,
                   soup, lh_results, lh_mode, rec_mode, prompt_data, results, screen,
                   served>>

\* Lines 244-247 with OPENAI_ENABLED false: generate_recommendations returns at
\* line 167, and perform_full_audit returns all_data
RecommendationsDisabled ==
    /\ pc = "recommendations"
    /\ ~OPENAI_ENABLED
    /\ rec_mode' = "disabled"
    /\ invoked' = invoked \cup {"recommendations"}
    /\ all_data' = setitem(all_data, "recommendations", recommendations_disabled)
    /\ Return(all_data')
    /\ UNCHANGED <<clock, OPENAI_ENABLED, url_to_audit, browser, fetch_error, soup,
                   lh_results, lh_mode, robots_probe, prompt_data, screen>>

\* Lines 244-247 with OPENAI_ENABLED true: the prompt is built from the stripped
\* deep copy and sent, the answer or the error placeholder is returned, and
\* perform_full_audit returns all_data
RecommendationsCall ==
    /\ pc = "recommendations"
    /\ OPENAI_ENABLED
    /\ prompt_data' = data_for_prompt(all_data)
    /\ \E call \in ServiceCalls :
        /\ rec_mode' = call_mode(call)
        /\ all_data' = setitem(audit_data_after(all_data), "recommendations",
                               recommendations_from(call))
    /\ invoked' = invoked \cup {"recommendations", "openai"}
    /\ Return(all_data')
    /\ UNCHANGED <<clock, OPENAI_ENABLED, url_to_audit, browser, fetch_error, soup,
                   lh_results, lh_mode, robots_probe, screen>>

\* Lines 292-370: the handler renders the report, or the failure message when
\* perform_full_audit returned None
Render ==
    /\ pc = "render"
    /\ screen' = IF results # None THEN "report" ELSE "failed"
    /\ pc' = "idle"
    /\ UNCHANGED <<clock, OPENAI_ENABLED, cache, url_to_audit, browser, fetch_error,
                   soup, all_data, lh_results, lh_mode, robots_probe, rec_mode,
                   prompt_data, invoked, results, served>>

Next ==
    \/ Tick
    \/ ClickRejected
    \/ ClickCached
    \/ ClickUncached
    \/ Launch
    \/ LaunchFails
    \/ NewPage
    \/ NewPageFails
    \/ Goto
    \/ GotoFails
    \/ Content
    \/ ContentFails
    \/ CloseBrowser
    \/ LighthouseDesktop
    \/ LighthouseMobile
    \/ Seo
    \/ Technical
    \/ RecommendationsDisabled
    \/ RecommendationsCall
    \/ Render

Spec == Init /\ [][Next]_vars

(***************************************************************************)
(* Properties                                                              *)
(***************************************************************************)
FetchSteps == {"launch", "new_page", "goto", "content", "close"}
Downstream == {"lighthouse_desktop", "lighthouse_mobile", "seo", "technical",
               "robots_txt", "recommendations", "openai"}
HandledFailures == {"timeout", "nonzero_exit", "malformed_json"}
Other(d) == IF d = "desktop" THEN "mobile" ELSE "desktop"

\* perform_full_audit has returned in this run
Returned == pc \in {"render", "idle"}

\* The body of perform_full_audit ran in this run and its fetch step succeeded
FetchSucceeded == "playwright" \in invoked /\ fetch_error = "none" /\ pc \notin FetchSteps

\* The error marker run_single_lighthouse_audit returns for a handled failure
IsMarkerOf(mode, result) ==
    /\ "error" \in DOMAIN result
    /\ "full_report" \notin DOMAIN result
    /\ CASE mode = "timeout" -> result = [error |-> "Timeout"]
         [] mode = "nonzero_exit" -> DOMAIN result = {"error", "stderr"}
         [] OTHER -> result = [error |-> "JSON parsing error: Expecting value"]

\* The result of a successful run: scores, metrics and the raw report
IsPopulated(result) ==
    /\ DOMAIN result = {"performance_score", "seo_score", "accessibility_score",
                        "best_practices_score", "metrics", "full_report"}
    /\ result.full_report \in Reports
    /\ result = lighthouse_summary(result.full_report)

\* C1 (as claimed): a submitted URL that does not begin with http:// or https://
\* is rejected with the validation error and nothing is launched, run or
\* probed for it.
C1_RejectedBeforeFetcher ==
    ~HasHttpScheme(url_to_audit) =>
        /\ invoked = {}
        /\ browser = "none"
        /\ pc = "idle" => screen = "validation_error"

\* C2: when the page fetch fails, perform_full_audit returns None, no
\* downstream stage has been invoked, and the dict under assembly holds
\* nothing but the url.
C2_FetchFailureAborts ==
    fetch_error # "none" =>
        /\ Returned
        /\ results = None
        /\ invoked \cap Downstream = {}
        /\ all_data = [url |-> url_to_audit]
        /\ prompt_data = None
        /\ pc = "idle" => screen = "failed"

C2_Witness ==
    /\ fetch_error = "timeout"
    /\ browser = "closed"
    /\ pc = "idle"
    /\ screen = "failed"

\* C3: when a device's Lighthouse run ends in a timeout, a non-zero exit or
\* malformed JSON, that device's entry is the matching error marker, the
\* other device's run has been executed as well, and the other device's
\* entry is what its own run produced (populated on success); the dict
\* run_lighthouse_audits returns carries both entries.
C3_DeviceFailureIsLocal ==
    pc \notin (FetchSteps \cup {"lighthouse_desktop", "lighthouse_mobile"}) =>
        \A d \in Devices :
            lh_mode[d] \in HandledFailures =>
                /\ d \in DOMAIN lh_results
                /\ IsMarkerOf(lh_mode[d], lh_results[d])
                /\ ("lighthouse_" \o Other(d)) \in invoked
                /\ lh_mode[Other(d)] # "not_run"
                /\ lh_mode[Other(d)] = "ok" => IsPopulated(lh_results[Other(d)])
                /\ lh_mode[Other(d)] \in HandledFailures =>
                        IsMarkerOf(lh_mode[Other(d)], lh_results[Other(d)])
                /\ lh_mode[Other(d)] # "raised" =>
                        /\ DOMAIN all_data["performance"] = Devices
                        /\ all_data["performance"] = lh_results

C3_Witness ==
    /\ pc = "seo"
    /\ lh_mode["desktop"] = "timeout"
    /\ lh_mode["mobile"] = "ok"
    /\ all_data["performance"]["desktop"] = [error |-> "Timeout"]
    /\ IsPopulated(all_data["performance"]["mobile"])

C3_WitnessMobileFails ==
    /\ pc = "seo"
    /\ lh_mode["desktop"] = "ok"
    /\ lh_mode["mobile"] = "malformed_json"
    /\ IsPopulated(all_data["performance"]["desktop"])

\* A report with every key the presentation layer reads
StructurallyComplete(report) ==
    /\ DOMAIN report = {"url", "performance", "seo", "technical", "recommendations"}
    /\ DOMAIN report["performance"] = Devices
    /\ {"summary", "actionItems"} \subseteq DOMAIN report["recommendations"]

\* C4 (as claimed): every report handed to the presentation layer holds url, a
\* performance section with a desktop and a mobile entry, seo, technical, and
\* recommendations with summary and actionItems.
C4_ReportStructurallyComplete ==
    (Returned /\ results # None) => StructurallyComplete(results)

\* C5: once the fetch has succeeded, no Lighthouse timeout, non-zero exit or
\* malformed JSON, no failed robots.txt probe and no failed or disabled
\* recommendation service stops the audit: every stage is still run, a failed
\* probe is recorded as has_robots_txt = false, and a report is returned.
C5_DegradableFailuresDoNotAbort ==
    /\ (FetchSucceeded /\ ~Returned) => ENABLED Next
    /\ (FetchSucceeded /\ Returned) =>
        /\ results # None
        /\ results = all_data
        /\ {"performance", "seo", "technical", "recommendations"} \subseteq DOMAIN results
        /\ {"lighthouse_desktop", "seo", "technical", "robots_txt", "recommendations"}
                \subseteq invoked
        /\ lh_mode["desktop"] \in HandledFailures \cup {"ok"} =>
                "lighthouse_mobile" \in invoked
        /\ robots_probe = "failed" => results["technical"]["has_robots_txt"]["value"] = FALSE
        /\ pc = "idle" => screen = "report"

C5_Witness ==
    /\ FetchSucceeded
    /\ pc = "idle"
    /\ screen = "report"
    /\ lh_mode["desktop"] = "timeout"
    /\ lh_mode["mobile"] = "malformed_json"
    /\ robots_probe = "failed"
    /\ rec_mode = "unreachable"
    /\ results["technical"]["has_robots_txt"]["value"] = FALSE

\* The fetch and both Lighthouse runs succeeded, and the audit has returned
AllAnalyzersSucceeded ==
    /\ FetchSucceeded
    /\ Returned
    /\ lh_mode = [d \in Devices |-> "ok"]

\* Populated performance, SEO and technical sections
SectionsPopulated(report) ==
    /\ \A d \in Devices : IsPopulated(report["performance"][d])
    /\ report["seo"] = analyze_seo(soup)
    /\ DOMAIN report["technical"] =
            {"https_enabled", "has_contact_page", "has_email", "has_phone",
             "has_privacy_link", "has_robots_txt"}

\* C6 (as claimed): with the fetch, both performance runs and the analyzers
\* successful and the recommendation service unreachable, the report has
\* populated sections and a recommendations placeholder with exactly one
\* action item.
C6_UnreachableServiceOneItem ==
    (AllAnalyzersSucceeded /\ rec_mode = "unreachable") =>
        /\ SectionsPopulated(results)
        /\ Len(results["recommendations"]["actionItems"]) = 1

\* C6 (amended): with the fetch, both performance runs and the analyzers
\* successful, the report has populated sections and: when the service is
\* disabled (no client could be built), the static placeholder with exactly
\* one instructive action item; when the service call fails (unreachable,
\* rate limit, unparsable answer), the generic error summary with an empty
\* action-item list.
C6_DisabledServiceOneItem ==
    AllAnalyzersSucceeded =>
        /\ rec_mode # "not_run"
        /\ SectionsPopulated(results)
        /\ rec_mode = "disabled" =>
            /\ results["recommendations"]["summary"] = "OpenAI API key not configured."
            /\ results["recommendations"]["actionItems"] =
                    <<"Enable OpenAI to get AI-powered recommendations.">>
            /\ Len(results["recommendations"]["actionItems"]) = 1
            /\ "openai" \notin invoked
        /\ rec_mode \in {"unreachable", "rate_limit", "malformed_json"} =>
            /\ results["recommendations"]["summary"] = "Error generating recommendations."
            /\ results["recommendations"]["actionItems"] = <<>>
            /\ "openai" \in invoked

C6_Witness ==
    /\ AllAnalyzersSucceeded
    /\ pc = "idle"
    /\ screen = "report"
    /\ rec_mode = "disabled"
    /\ Len(results["recommendations"]["actionItems"]) = 1

\* C7: a request for a URL whose last executed audit returned less than ttl
\* seconds ago gets that audit's return value without the body of
\* perform_full_audit running (no fetch, no Lighthouse run); once ttl seconds
\* have passed, a request for that URL runs the pipeline again.
C7_CacheWindow ==
    [][\A u \in URLs :
        (pc = "idle" /\ pc' # "idle" /\ url_to_audit' = u /\ served[u] # Missing) =>
            IF clock < served[u].at + ttl
            THEN /\ pc' = "render"
                 /\ results' = served[u].value
                 /\ invoked' = {}
                 /\ browser' = "none"
                 /\ served' = served
            ELSE /\ pc' = "launch"
                 /\ results' = None
                 /\ served'[u] = Missing]_vars

C7_Witness ==
    /\ pc = "render"
    /\ invoked = {}
    /\ served[url_to_audit] # Missing
    /\ clock > served[url_to_audit].at
    /\ clock < served[url_to_audit].at + ttl
    /\ results = served[url_to_audit].value
    /\ results # None

C7_WitnessExpired ==
    /\ pc = "render"
    /\ "playwright" \in invoked
    /\ served[url_to_audit] # Missing
    /\ served[url_to_audit].at >= ttl
    /\ results # None

\* C8: whenever the fetch step has ended, no browser launched by it is still
\* running: a browser that was launched has been closed, after a successful
\* capture as well as after a failure of page creation, navigation or capture.
C8_BrowserTornDown ==
    /\ pc \notin FetchSteps => browser # "open"
    /\ (pc \notin FetchSteps /\ "playwright" \in invoked /\ fetch_error # "launch") =>
            browser = "closed"
    /\ (pc \in FetchSteps \ {"launch"}) => browser = "open"

C8_Witness ==
    /\ pc = "render"
    /\ fetch_error = "navigation"
    /\ browser = "closed"

\* The keys of the merged audit that generate_recommendations receives
AuditKeys == {"url", "performance", "seo", "technical"}

\* C9: the payload sent to the text-generation service has no full_report key
\* under either device, and holds every other field of the merged audit
\* unchanged.
C9_PromptHasNoFullReport ==
    prompt_data # None =>
        /\ DOMAIN prompt_data = AuditKeys
        /\ \A k \in AuditKeys \ {"performance"} : prompt_data[k] = all_data[k]
        /\ DOMAIN prompt_data["performance"] = DOMAIN all_data["performance"]
        /\ \A d \in DOMAIN all_data["performance"] \cap Devices :
            /\ "full_report" \notin DOMAIN prompt_data["performance"][d]
            /\ DOMAIN prompt_data["performance"][d] =
                    DOMAIN all_data["performance"][d] \ {"full_report"}
            /\ \A f \in DOMAIN prompt_data["performance"][d] :
                    prompt_data["performance"][d][f] = all_data["performance"][d][f]
        /\ \A k \in DOMAIN all_data["performance"] \ Devices :
                prompt_data["performance"][k] = all_data["performance"][k]

C9_Witness ==
    /\ prompt_data # None
    /\ pc = "render"
    /\ rec_mode = "ok"
    /\ DOMAIN all_data["performance"] = Devices
    /\ prompt_data["seo"] = all_data["seo"]
    /\ \A d \in Devices :
        /\ "full_report" \in DOMAIN all_data["performance"][d]
        /\ "full_report" \notin DOMAIN prompt_data["performance"][d]
        /\ prompt_data["performance"][d]["metrics"] = all_data["performance"][d]["metrics"]

\* C10: the call of generate_recommendations leaves the url, performance, seo
\* and technical sections of the caller's audit as they were, whatever the
\* service does (disabled, error, success), so the report perform_full_audit
\* returns carries, verbatim, the full_report of each successful device run
\* that run_lighthouse_audits returned.
C10_AuditUnchangedByRecommendations ==
    [][pc = "recommendations" =>
        /\ \A k \in AuditKeys : all_data'[k] = all_data[k]
        /\ DOMAIN all_data' = AuditKeys \cup {"recommendations"}
        /\ results' = all_data'
        /\ \A d \in Devices \cap DOMAIN all_data["performance"] :
            /\ results'["performance"][d] = all_data["performance"][d]
            /\ lh_mode[d] = "ok" =>
                /\ "full_report" \in DOMAIN results'["performance"][d]
                /\ results'["performance"][d]["full_report"] \in Reports
                /\ results'["performance"][d] = lh_results[d]]_vars

C10_Witness ==
    /\ pc = "render"
    /\ rec_mode = "ok"
    /\ prompt_data # None
    /\ lh_mode = [d \in Devices |-> "ok"]
    /\ \A d \in Devices :
        /\ results["performance"][d]["full_report"] \in Reports
        /\ "full_report" \in DOMAIN results["performance"][d]
        /\ "full_report" \notin DOMAIN prompt_data["performance"][d]

====
